---- MODULE Spec2Model ----
(***************************************************************************)
(* Model of the documentation chatbot: the keyword extractor, the          *)
(* two-stage article retrieval (searchArticles), the summary generator,    *)
(* the chat session of ChatInterface (handleSendMessage) and the article   *)
(* management of AdminPanel (fetchArticles, handleSave, handleDelete).     *)
(*                                                                         *)
(* Text is modelled as a sequence of one-character strings, so that        *)
(* lower-casing, splitting and trimming are computed character by          *)
(* character.  The literal texts of the templates are single chunks.       *)
(***************************************************************************)
EXTENDS Integers, Sequences, FiniteSets, TLC

VARIABLES
    store,       \* the rows of table articles (set of Article records)
    activeView,  \* App: 'chat' | 'admin'
    session,     \* number of the mounted ChatInterface instance (0: none yet)
    messages,    \* ChatInterface state: the turn log
    inputValue,  \* ChatInterface state: the text of the textarea
    isLoading,   \* ChatInterface state: the in-flight flag
    calls,       \* outstanding searchArticles calls (awaiting the store)
    clock,       \* Date.now()
    submits,     \* number of handleSendMessage invocations so far
    hist,        \* the last event handled and what it observed
    kwQuery,     \* input of extractKeywords under SpecKw
    kwResult,    \* its result under SpecKw
    sumArticles, \* first argument of generateSummary under SpecSummary
    sumQuery,    \* its second argument
    sumResult,   \* its result
    adminArticles,  \* AdminPanel state: articles
    isEditing,      \* AdminPanel state: the editor is open
    editingArticle, \* AdminPanel state: the article in the editor
    adminLoading,   \* AdminPanel state: loading
    adminCalls,     \* the store calls of AdminPanel that are outstanding
    nextId,         \* the id the store gives to the next row
    adminHist       \* AdminPanel: what the last step was, the user's events so far

vars == <<store, activeView, session, messages, inputValue, isLoading, calls,
          clock, submits, hist, kwQuery, kwResult, sumArticles, sumQuery,
          sumResult, adminArticles, isEditing, editingArticle, adminLoading,
          adminCalls, nextId, adminHist>>

chatVars == <<store, activeView, session, messages, inputValue, isLoading,
              calls, clock, submits, hist>>

kwVars == <<kwQuery, kwResult>>

sumVars == <<sumArticles, sumQuery, sumResult>>

adminVars == <<adminArticles, isEditing, editingArticle, adminLoading,
               adminCalls, nextId, adminHist>>

-----------------------------------------------------------------------------
(* Bounds of the model *)

MaxEvents == 3

MaxArticles == 7

MaxRows == 5

MaxChars == 5

MaxWords == 7

MaxSummaryArticles == 4

MaxQueryWords == 2

MaxAdminEvents == 5

-----------------------------------------------------------------------------
(* Program constants *)

KeywordLimit == 5

MinWordLength == 2

ResultLimit == 5

SummaryArticles == 3

AttachedArticles == 3

PreviewLength == 200

GreetingId == 1

-----------------------------------------------------------------------------
(* Characters and strings *)

Min(a, b) == IF a < b THEN a ELSE b

UpperChars == <<"A","B","C","D","E","F","G","H","I","J","K","L","M",
                "N","O","P","Q","R","S","T","U","V","W","X","Y","Z">>

LowerChars == <<"a","b","c","d","e","f","g","h","i","j","k","l","m",
                "n","o","p","q","r","s","t","u","v","w","x","y","z">>

\* the characters matched by \s that occur in the model
Whitespace == {" ", "\t", "\n"}

ToLowerChar(c) ==
    IF \E i \in 1..Len(UpperChars) : UpperChars[i] = c
    THEN LowerChars[CHOOSE i \in 1..Len(UpperChars) : UpperChars[i] = c]
    ELSE c

\* String.prototype.toLowerCase
ToLowerCase(s) == [i \in 1..Len(s) |-> ToLowerChar(s[i])]

\* !s.trim(): the string is empty after removing leading and trailing whitespace
IsBlank(s) == \A i \in 1..Len(s) : s[i] \in Whitespace

RECURSIVE SplitFrom(_, _, _, _)
SplitFrom(s, i, cur, acc) ==
    IF i > Len(s) THEN Append(acc, cur)
    ELSE IF s[i] \in Whitespace
         THEN IF i > 1 /\ s[i-1] \in Whitespace
              THEN SplitFrom(s, i + 1, cur, acc)
              ELSE SplitFrom(s, i + 1, <<>>, Append(acc, cur))
         ELSE SplitFrom(s, i + 1, Append(cur, s[i]), acc)

\* String.prototype.split(/\s+/): a leading or trailing whitespace run yields
\* an empty first or last token, and the empty string yields one empty token
SplitWhitespace(s) == SplitFrom(s, 1, <<>>, <<>>)

\* Array.prototype.slice(0, n)
Slice(seq, n) == SubSeq(seq, 1, Min(n, Len(seq)))

\* whether substring sub occurs in s (String.prototype.includes)
Includes(s, sub) ==
    \E i \in 0..(Len(s) - Len(sub)) :
        \A j \in 1..Len(sub) : s[i + j] = sub[j]

-----------------------------------------------------------------------------
(* Keyword extractor *)

stopWords == {
    <<"t","h","e">>, <<"i","s">>, <<"a","t">>, <<"w","h","i","c","h">>,
    <<"o","n">>, <<"h","o","w">>, <<"t","o">>, <<"w","h","a","t">>,
    <<"w","h","e","r","e">>, <<"w","h","e","n">>, <<"w","h","y">>,
    <<"a","n","d">>, <<"o","r">>, <<"b","u","t">>, <<"i","n">>,
    <<"w","i","t","h">>, <<"f","o","r">> }

\* faulty variant: stop words are kept
KeepWord_NoStopWords(word) == Len(word) > MinWordLength

\* the filter predicate: word.length > 2 && !stopWords.includes(word)
KeepWord(word) == Len(word) > MinWordLength /\ word \notin stopWords

\* faulty variant: the result is not cut to 5 keywords
extractKeywords_NoLimit(query) ==
    SelectSeq(SplitWhitespace(ToLowerCase(query)), KeepWord)

\* query.toLowerCase().split(/\s+/).filter(...).slice(0, 5)
extractKeywords(query) ==
    Slice(SelectSeq(SplitWhitespace(ToLowerCase(query)), KeepWord), KeywordLimit)

-----------------------------------------------------------------------------
(* Article store: table articles and the two queries searchArticles sends *)

W_docker == <<"d","o","c","k","e","r">>

W_deployment == <<"d","e","p","l","o","y","m","e","n","t">>

W_api == <<"a","p","i">>

T_DockerGuide == <<"D","o","c","k","e","r"," ","G","u","i","d","e">>

T_Security == <<"S","e","c","u","r","i","t","y">>

\* The i-th row of the pool the stores are drawn from.  Row 1 has a title no
\* keyword of it repeats; the other rows share the keyword docker, and the
\* rows after row MaxRows share their created_at.
Article(i) ==
    [ id         |-> i,
      title      |-> IF i = 1 THEN T_Security ELSE T_DockerGuide,
      content    |-> IF i = 1 THEN <<"k","e","y","s">> ELSE <<"r","u","n">>,
      keywords   |-> IF i = 1 THEN <<W_api>>
                     ELSE IF i = 2 THEN <<W_docker, W_deployment>>
                     ELSE <<W_docker>>,
      category   |-> IF i % 2 = 1 THEN <<"Security">> ELSE <<"DevOps">>,
      author     |-> <<"Admin">>,
      created_at |-> IF i > MaxRows THEN MaxRows + 1 ELSE i,
      updated_at |-> IF i > MaxRows THEN MaxRows + 1 ELSE i ]

Pool == {Article(i) : i \in 1..MaxArticles}

\* the set of elements of an array
Elems(seq) == {seq[i] : i \in 1..Len(seq)}

\* .overlaps('keywords', keywords): the arrays share at least one element
Overlaps(article, keywords) == Elems(article.keywords) \cap Elems(keywords) # {}

\* the positions where a whitespace-separated token of s starts
TokenStarts(s) ==
    {i \in 1..Len(s) : s[i] \notin Whitespace /\ (i = 1 \/ s[i-1] \in Whitespace)}

\* the token of s that starts at position i
TokenAt(s, i) ==
    LET last == CHOOSE j \in i..Len(s) :
                    /\ \A k \in i..j : s[k] \notin Whitespace
                    /\ (j = Len(s) \/ s[j+1] \in Whitespace)
    IN  SubSeq(s, i, last)

\* the words a text consists of, as the title index of the store sees them:
\* lower-cased, in no order
Words(text) ==
    UNION {{TokenAt(lower, i) : i \in TokenStarts(lower)} :
              lower \in {ToLowerCase(text)}}

\* .textSearch('title', query): the title index is word-based and
\* case-insensitive; a row matches when every word of the query is a word of
\* its title
TextSearch(article, query) ==
    Words(query) # {} /\ Words(query) \subseteq Words(article.title)

RECURSIVE DescOrders(_)
\* .order('created_at', { ascending: false }): every ordering of the rows by
\* created_at descending; rows with equal created_at come in any order
DescOrders(rows) ==
    IF rows = {} THEN {<<>>}
    ELSE LET top == {a \in rows : \A b \in rows : b.created_at <= a.created_at}
         IN  UNION {{<<a>> \o s : s \in DescOrders(rows \ {a})} : a \in top}

\* faulty variant: the query has no limit
OrderAndLimit_NoLimit(rows) == DescOrders(rows)

\* .order('created_at', { ascending: false }).limit(5)
OrderAndLimit(rows) == {Slice(s, ResultLimit) : s \in DescOrders(rows)}

ErrorDetails == {"network"}

NoResponse == [outcome |-> "none", data |-> <<>>, detail |-> "none"]

\* What awaiting a query can give: rows ({data, error: null}), a store error
\* ({data: null, error}), or a rejection of the awaited promise.
Responses(rows) ==
    {[outcome |-> "ok", data |-> d, detail |-> "none"] : d \in OrderAndLimit(rows)}
    \cup {[outcome |-> "error", data |-> <<>>, detail |-> e] : e \in ErrorDetails}
    \cup {[outcome |-> "throw", data |-> <<>>, detail |-> e] : e \in ErrorDetails}

\* the answers of the store to the stage-1 query
KeywordResponses(st, keywords) ==
    UNION {Responses(rows) : rows \in {{a \in st : Overlaps(a, keywords)}}}

\* the answers of the store to the stage-2 query
TextResponses(st, query) ==
    UNION {Responses(rows) : rows \in {{a \in st : TextSearch(a, query)}}}

-----------------------------------------------------------------------------
(* searchArticles, one step per await *)

\* the value destructured as data: null unless the query succeeded
Data(resp) == [null |-> resp.outcome # "ok", rows |-> resp.data]

\* faulty variant: the full-text query is sent whatever stage 1 returned
NeedsFallback_Always(keywordResults) == TRUE

\* !keywordResults || keywordResults.length === 0
NeedsFallback(keywordResults) ==
    keywordResults.null \/ Len(keywordResults.rows) = 0

\* x || []
OrEmpty(d) == IF d.null THEN <<>> ELSE d.rows

\* faulty variant: with no keywords the keyword-overlap query is skipped
SearchStart_SkipsEmptyKeywords(query) ==
    [ query    |-> query,
      keywords |-> extractKeywords(query),
      pc       |-> IF extractKeywords(query) = <<>> THEN "stage2" ELSE "stage1",
      issued   |-> IF extractKeywords(query) = <<>> THEN <<"textSearch">>
                   ELSE <<"overlaps">>,
      r1       |-> NoResponse,
      r2       |-> NoResponse,
      result   |-> <<>> ]

\* searchArticles up to its first await: the keywords are extracted and the
\* keyword-overlap query is sent
SearchStart(query) ==
    [ query    |-> query,
      keywords |-> extractKeywords(query),
      pc       |-> "stage1",
      issued   |-> <<"overlaps">>,
      r1       |-> NoResponse,
      r2       |-> NoResponse,
      result   |-> <<>> ]

\* from the answer to the keyword-overlap query to the next await or return
SearchAfterStage1(call, resp) ==
    IF resp.outcome = "throw"
    THEN [call EXCEPT !.pc = "thrown", !.r1 = resp]
    ELSE IF NeedsFallback(Data(resp))
         THEN [call EXCEPT !.pc = "stage2", !.r1 = resp,
                           !.issued = Append(@, "textSearch")]
         ELSE [call EXCEPT !.pc = "returned", !.r1 = resp,
                           !.result = OrEmpty(Data(resp))]

\* faulty variant: the rows of the full-text query are not taken over
SearchAfterStage2_KeepsStage1(call, resp) ==
    IF resp.outcome = "throw"
    THEN [call EXCEPT !.pc = "thrown", !.r2 = resp]
    ELSE [call EXCEPT !.pc = "returned", !.r2 = resp,
                      !.result = OrEmpty(Data(call.r1))]

\* from the answer to the full-text query to the return
SearchAfterStage2(call, resp) ==
    IF resp.outcome = "throw"
    THEN [call EXCEPT !.pc = "thrown", !.r2 = resp]
    ELSE [call EXCEPT !.pc = "returned", !.r2 = resp,
                      !.result = OrEmpty(Data(resp))]

NoCall == [SearchStart(<<>>) EXCEPT !.pc = "none", !.issued = <<>>]

-----------------------------------------------------------------------------
(* Summary generator *)

Digits == <<"0","1","2","3","4","5","6","7","8","9">>

\* faulty variant: the count is the number of articles shown
NumberText_ShownCount(n) == <<Digits[Min(n, SummaryArticles) + 1]>>

RECURSIVE NumberText(_)
\* the decimal digits of n, as `${n}` prints them
NumberText(n) ==
    IF n < 10 THEN <<Digits[n + 1]>>
    ELSE Append(NumberText(n \div 10), Digits[(n % 10) + 1])

NoResultsText ==
    <<"I couldn't find any relevant articles for your query. Try using different keywords or check with an admin to ensure the documentation is available.">>

\* faulty variant: the content is not cut
Substring_Whole(s, n) == s

\* String.prototype.substring(0, n)
Substring(s, n) == SubSeq(s, 1, Min(n, Len(s)))

\* `**${article.title}** (${article.category}): ${article.content.substring(0, 200)}...`
ArticleEntry(article) ==
    <<"**">> \o article.title \o <<"** (">> \o article.category \o <<"): ">>
    \o Substring(article.content, PreviewLength) \o <<"...">>

RECURSIVE JoinEntries(_)
\* .map(entry).join('\n\n')
JoinEntries(articles) ==
    IF Len(articles) = 0 THEN <<>>
    ELSE IF Len(articles) = 1 THEN ArticleEntry(articles[1])
    ELSE ArticleEntry(articles[1]) \o <<"\n\n">> \o JoinEntries(Tail(articles))

W_how == <<"h","o","w">>

W_what == <<"w","h","a","t">>

W_error == <<"e","r","r","o","r">>

W_issue == <<"i","s","s","u","e">>

\* faulty variant: the category most of the articles have
MainCategory_MostFrequent(articles) ==
    LET cats == {articles[i].category : i \in 1..Len(articles)}
        count(c) == Cardinality({i \in 1..Len(articles) : articles[i].category = c})
    IN  CHOOSE c \in cats : \A d \in cats : count(c) >= count(d)

\* [...new Set(articles.map(a => a.category))][0]: a Set keeps insertion
\* order, so the first category is the one of the first article
MainCategory(articles) == articles[1].category

\* faulty variant: the troubleshooting test comes first
generateContextualSummary_ErrorFirst(articles, query) ==
    LET mainCategory == MainCategory(articles)
        lower == ToLowerCase(query)
    IN  IF Includes(lower, W_error) \/ Includes(lower, W_issue)
        THEN <<"These articles contain troubleshooting information and solutions for common issues in ">>
             \o mainCategory \o <<". Check the error handling sections.">>
        ELSE IF Includes(lower, W_how)
        THEN <<"Here are the step-by-step instructions from our ">> \o mainCategory
             \o <<" documentation. Follow the procedures outlined in these articles for best results.">>
        ELSE IF Includes(lower, W_what)
        THEN <<"These articles explain the concepts and definitions related to ">> \o mainCategory
             \o <<". Review the documentation for comprehensive understanding.">>
        ELSE <<"The documentation covers various aspects of ">> \o mainCategory
             \o <<". These articles should provide the information you're looking for.">>

generateContextualSummary(articles, query) ==
    LET mainCategory == MainCategory(articles)
        lower == ToLowerCase(query)
    IN  IF Includes(lower, W_how)
        THEN <<"Here are the step-by-step instructions from our ">> \o mainCategory
             \o <<" documentation. Follow the procedures outlined in these articles for best results.">>
        ELSE IF Includes(lower, W_what)
        THEN <<"These articles explain the concepts and definitions related to ">> \o mainCategory
             \o <<". Review the documentation for comprehensive understanding.">>
        ELSE IF Includes(lower, W_error) \/ Includes(lower, W_issue)
        THEN <<"These articles contain troubleshooting information and solutions for common issues in ">>
             \o mainCategory \o <<". Check the error handling sections.">>
        ELSE <<"The documentation covers various aspects of ">> \o mainCategory
             \o <<". These articles should provide the information you're looking for.">>

\* faulty variant: a single article is treated as no result
generateSummary_EmptyOrOne(articles, query) ==
    IF Len(articles) <= 1 THEN NoResultsText
    ELSE <<"Based on your query about \"">> \o query \o <<"\", I found ">>
         \o NumberText(Len(articles)) \o <<" relevant article">>
         \o (IF Len(articles) > 1 THEN <<"s">> ELSE <<>>) \o <<":\n\n">>
         \o JoinEntries(Slice(articles, SummaryArticles))
         \o <<"\n\n**Summary**: ">> \o generateContextualSummary(articles, query)

generateSummary(articles, query) ==
    IF Len(articles) = 0 THEN NoResultsText
    ELSE <<"Based on your query about \"">> \o query \o <<"\", I found ">>
         \o NumberText(Len(articles)) \o <<" relevant article">>
         \o (IF Len(articles) > 1 THEN <<"s">> ELSE <<>>) \o <<":\n\n">>
         \o JoinEntries(Slice(articles, SummaryArticles))
         \o <<"\n\n**Summary**: ">> \o generateContextualSummary(articles, query)

-----------------------------------------------------------------------------
(* Chat session: ChatInterface under App *)

GreetingText ==
    <<"Hello! I'm your internal documentation assistant. I can help you find information from our company's knowledge base. Just ask me anything about our processes, technologies, or procedures!">>

ErrorText ==
    <<"I'm sorry, I encountered an error while searching for information. Please try again or contact an administrator.">>

\* Date.now() when the page is loaded: later than the greeting's fixed id
ClockStart == GreetingId + 1

Greeting(now) ==
    [ id |-> GreetingId, content |-> GreetingText, isBot |-> TRUE,
      timestamp |-> now, hasArticles |-> FALSE, articles |-> <<>> ]

\* faulty variant: the user turn is marked as an assistant turn
userMessage_AsBot(now, input) ==
    [ id |-> now, content |-> input, isBot |-> TRUE,
      timestamp |-> now, hasArticles |-> FALSE, articles |-> <<>> ]

userMessage(now, input) ==
    [ id |-> now, content |-> input, isBot |-> FALSE,
      timestamp |-> now, hasArticles |-> FALSE, articles |-> <<>> ]

\* faulty variant: every article found is attached
botMessage_AllArticles(now, articles, input) ==
    [ id |-> now + 1, content |-> generateSummary(articles, input), isBot |-> TRUE,
      timestamp |-> now, hasArticles |-> TRUE, articles |-> articles ]

botMessage(now, articles, input) ==
    [ id |-> now + 1, content |-> generateSummary(articles, input), isBot |-> TRUE,
      timestamp |-> now, hasArticles |-> TRUE,
      articles |-> Slice(articles, AttachedArticles) ]

errorMessage(now) ==
    [ id |-> now + 1, content |-> ErrorText, isBot |-> TRUE,
      timestamp |-> now, hasArticles |-> FALSE, articles |-> <<>> ]

Q_Guide == <<"G","u","i","d","e">>

\* the texts typed into the textarea: nothing, white space, and a query that
\* shares a keyword with every row of the pool but the first and occurs in
\* their titles
Inputs == { <<>>, <<" ">>, W_docker }

\* the stores a session runs against: the first k rows of the pool
Stores == {{Article(i) : i \in 1..k} : k \in {0, MaxRows}}

\* the number of visits of the admin view so far: every session but the
\* first was reached by leaving the chat view and returning to it
ViewChanges == (session - 1) + (IF activeView = "admin" THEN 1 ELSE 0)

\* the user's and the clock's events so far: submits, clock ticks and visits
\* of the admin view
Events == submits + (clock - ClockStart) + ViewChanges

\* faulty variant: the updates of an unmounted instance reach the mounted one
Mounted_AnyInstance(sess) == activeView = "chat"

\* whether the ChatInterface instance that started a call is still mounted
Mounted(sess) == activeView = "chat" /\ session = sess

\* faulty variant: the guard is missing
SubmitRejected_Never(input, loading) == FALSE

\* faulty variant: the guard does not look at the input
SubmitRejected_LoadingOnly(input, loading) == loading

\* if (!inputValue.trim() || isLoading) return
SubmitRejected(input, loading) == IsBlank(input) \/ loading

\* the variables of the other specifications, which the chat session leaves
\* alone
kwIdle ==
    /\ kwQuery = <<>>
    /\ kwResult = [done |-> FALSE, value |-> <<>>]

summaryIdle ==
    /\ sumArticles = <<>>
    /\ sumQuery = <<>>
    /\ sumResult = [done |-> FALSE, value |-> <<>>]

\* no AdminPanel is mounted
adminIdle ==
    /\ adminArticles = <<>>
    /\ isEditing = FALSE
    /\ editingArticle = [null |-> TRUE]
    /\ adminLoading = FALSE
    /\ adminCalls = {}
    /\ nextId = 0
    /\ adminHist = [ev |-> "init", events |-> 0, fetched |-> 0]

Init ==
    /\ store \in Stores
    /\ activeView = "chat"
    /\ session = 1
    /\ clock = ClockStart
    /\ messages = <<Greeting(ClockStart)>>
    /\ inputValue = <<>>
    /\ isLoading = FALSE
    /\ calls = {}
    /\ submits = 0
    /\ hist = [ev |-> "init", call |-> NoCall, live |-> FALSE]
    /\ kwIdle
    /\ summaryIdle
    /\ adminIdle

\* Date.now() advances
Tick ==
    /\ Events < MaxEvents
    /\ clock' = clock + 1
    /\ UNCHANGED <<store, activeView, session, messages, inputValue, isLoading,
                   calls, submits, hist, kwVars, sumVars, adminVars>>

\* onChange of the textarea, which is disabled while isLoading
setInputValue(value) ==
    /\ activeView = "chat"
    /\ ~isLoading
    /\ value # inputValue
    /\ inputValue' = value
    /\ UNCHANGED <<store, activeView, session, messages, isLoading, calls,
                   clock, submits, hist, kwVars, sumVars, adminVars>>

\* Send click or Enter key: handleSendMessage up to its await.  React commits
\* the state updates of a click or key handler before the next event is
\* handled, so every invocation reads the current inputValue and isLoading.
handleSendMessage ==
    /\ activeView = "chat"
    /\ Events < MaxEvents
    /\ submits' = submits + 1
    /\ IF SubmitRejected(inputValue, isLoading)
       THEN /\ hist' = [hist EXCEPT !.ev = "reject"]
            /\ UNCHANGED <<messages, inputValue, isLoading, calls>>
       ELSE /\ messages' = Append(messages, userMessage(clock, inputValue))
            /\ inputValue' = <<>>
            /\ isLoading' = TRUE
            /\ calls' = calls \cup
                  {[sess |-> session, search |-> SearchStart(inputValue)]}
            /\ hist' = [hist EXCEPT !.ev = "accept"]
    /\ UNCHANGED <<store, activeView, session, clock, kwVars, sumVars, adminVars>>

\* faulty variant: the catch block appends a summary turn
FinishedMessage_AlwaysSummary(now, search) ==
    botMessage(now, search.result, search.query)

\* the turn handleSendMessage appends once searchArticles has settled: the
\* summary in the try block, the apology in the catch block
FinishedMessage(now, search) ==
    IF search.pc = "returned"
    THEN botMessage(now, search.result, search.query)
    ELSE errorMessage(now)

\* faulty variant: the flag is cleared in the try block, not in finally
LoadingAfterCycle_KeptOnError(search) == search.pc = "thrown"

\* finally { setIsLoading(false) }
LoadingAfterCycle(search) == FALSE

\* faulty variant: the turn is appended to the log as it was before the
\* submit, which drops the user turn
Finish_LogBeforeSubmit(c, search) ==
    /\ calls' = calls \ {c}
    /\ hist' = [ev |-> IF search.pc = "returned" THEN "summary" ELSE "apology",
                call |-> search, live |-> Mounted(c.sess)]
    /\ IF Mounted(c.sess)
       THEN /\ messages' = Append(SubSeq(messages, 1, Len(messages) - 1),
                                  FinishedMessage(clock, search))
            /\ isLoading' = LoadingAfterCycle(search)
       ELSE UNCHANGED <<messages, isLoading>>
    /\ UNCHANGED <<store, activeView, session, inputValue, clock, submits, kwVars,
                   sumVars, adminVars>>

\* handleSendMessage from the settling of searchArticles to its end; the
\* state of an unmounted instance is gone and its updates are dropped
Finish(c, search) ==
    /\ calls' = calls \ {c}
    /\ hist' = [ev |-> IF search.pc = "returned" THEN "summary" ELSE "apology",
                call |-> search, live |-> Mounted(c.sess)]
    /\ IF Mounted(c.sess)
       THEN /\ messages' = Append(messages, FinishedMessage(clock, search))
            /\ isLoading' = LoadingAfterCycle(search)
       ELSE UNCHANGED <<messages, isLoading>>
    /\ UNCHANGED <<store, activeView, session, inputValue, clock, submits, kwVars, sumVars, adminVars>>

\* the store answers the keyword-overlap query of call c
AnswerStage1(c) ==
    /\ c \in calls
    /\ c.search.pc = "stage1"
    /\ \E resp \in KeywordResponses(store, c.search.keywords) :
          \E search \in {SearchAfterStage1(c.search, resp)} :
             IF search.pc = "stage2"
             THEN /\ calls' = (calls \ {c}) \cup {[c EXCEPT !.search = search]}
                  /\ UNCHANGED <<store, activeView, session, messages, inputValue,
                                 isLoading, clock, submits, hist, kwVars, sumVars, adminVars>>
             ELSE Finish(c, search)

\* the store answers the full-text query of call c
AnswerStage2(c) ==
    /\ c \in calls
    /\ c.search.pc = "stage2"
    /\ \E resp \in TextResponses(store, c.search.query) :
          \E search \in {SearchAfterStage2(c.search, resp)} :
             Finish(c, search)

\* Navigation: onViewChange; leaving the chat view unmounts ChatInterface,
\* returning to it mounts a new instance
setActiveView(view) ==
    /\ view # activeView
    /\ view = "admin" => Events < MaxEvents
    /\ activeView' = view
    /\ IF view = "chat"
       THEN /\ session' = session + 1
            /\ messages' = <<Greeting(clock)>>
       ELSE /\ session' = session
            /\ messages' = <<>>
    /\ inputValue' = <<>>
    /\ isLoading' = FALSE
    /\ UNCHANGED <<store, calls, clock, submits, hist, kwVars, sumVars, adminVars>>

Next ==
    \/ Tick
    \/ \E value \in Inputs : setInputValue(value)
    \/ handleSendMessage
    \/ \E c \in calls : AnswerStage1(c)
    \/ \E c \in calls : AnswerStage2(c)
    \/ \E view \in {"chat", "admin"} : setActiveView(view)

Spec == Init /\ [][Next]_vars

\* every store call that is awaited is eventually answered
FairSpec ==
    /\ Spec
    /\ WF_vars(\E c \in calls : AnswerStage1(c))
    /\ WF_vars(\E c \in calls : AnswerStage2(c))

-----------------------------------------------------------------------------
(* searchArticles on its own: SpecSearch calls it once, with any query of  *)
(* SearchQueries against any store drawn from the pool                     *)

Q_HowTo == <<"h","o","w"," ","t","o">>

SearchQueries == {<<>>, W_docker, Q_Guide, T_Security, Q_HowTo}

InitSearch ==
    /\ store \in SUBSET Pool
    /\ activeView = "chat"
    /\ session = 1
    /\ clock = ClockStart
    /\ messages = <<Greeting(ClockStart)>>
    /\ inputValue = <<>>
    /\ isLoading = FALSE
    /\ calls = {}
    /\ submits = 0
    /\ hist = [ev |-> "init", call |-> NoCall, live |-> FALSE]
    /\ kwIdle
    /\ summaryIdle
    /\ adminIdle

\* searchArticles(query), called by no mounted ChatInterface instance
CallSearchArticles(query) ==
    /\ calls = {}
    /\ hist.ev = "init"
    /\ calls' = {[sess |-> 0, search |-> SearchStart(query)]}
    /\ UNCHANGED <<store, activeView, session, messages, inputValue, isLoading,
                   clock, submits, hist, kwVars, sumVars, adminVars>>

NextSearch ==
    \/ \E query \in SearchQueries : CallSearchArticles(query)
    \/ \E c \in calls : AnswerStage1(c)
    \/ \E c \in calls : AnswerStage2(c)

SpecSearch == InitSearch /\ [][NextSearch]_vars

-----------------------------------------------------------------------------
(* Keyword extraction on its own: SpecKw applies extractKeywords to every  *)
(* query of KwQueries                                                      *)

KwAlphabet == {"h", "o", "w", "W", " ", "\t"}

RECURSIVE Strings(_)
\* the strings over KwAlphabet of length n
Strings(n) ==
    IF n = 0 THEN {<<>>}
    ELSE {Append(s, c) : s \in Strings(n - 1), c \in KwAlphabet}

KwVocabulary == { <<"h","o","w">>, <<"D","o","c","k","e","r">>, <<"d","o">> }

RECURSIVE Sentences(_)
\* the queries of n words of KwVocabulary, each followed by one space
Sentences(n) ==
    IF n = 0 THEN {<<>>}
    ELSE {s \o w \o <<" ">> : s \in Sentences(n - 1), w \in KwVocabulary}

\* "How do I deploy with Docker"
Q_DeployDocker == <<"H","o","w"," ","d","o"," ","I"," ","d","e","p","l","o","y",
                    " ","w","i","t","h"," ","D","o","c","k","e","r">>

\* the queries extractKeywords is applied to: the strings of at most chars
\* characters, the sentences of at most words words, and the example query
KwQueries(chars, words) ==
    UNION {Strings(n) : n \in 0..chars}
    \cup UNION {Sentences(n) : n \in 0..words}
    \cup {Q_DeployDocker}

chatIdle ==
    /\ store = {}
    /\ activeView = "chat"
    /\ session = 0
    /\ messages = <<>>
    /\ inputValue = <<>>
    /\ isLoading = FALSE
    /\ calls = {}
    /\ clock = 0
    /\ submits = 0
    /\ hist = [ev |-> "init", call |-> NoCall, live |-> FALSE]

InitKw ==
    /\ chatIdle
    /\ summaryIdle
    /\ adminIdle
    /\ kwQuery \in KwQueries(MaxChars, MaxWords)
    /\ kwResult = [done |-> FALSE, value |-> <<>>]

ApplyExtractKeywords ==
    /\ ~kwResult.done
    /\ kwResult' = [done |-> TRUE, value |-> extractKeywords(kwQuery)]
    /\ UNCHANGED <<kwQuery, chatVars, sumVars, adminVars>>

NextKw == ApplyExtractKeywords

SpecKw == InitKw /\ [][NextKw]_vars

(* What the claims say of extractKeywords, stated on the positions of the  *)
(* query rather than by splitting it.                                      *)

\* the starts of the tokens that are longer than 2 and no stop word
GoodStarts(s) ==
    {i \in TokenStarts(s) : Len(TokenAt(s, i)) > 2 /\ TokenAt(s, i) \notin stopWords}

\* the k-th smallest element of a set of numbers
Kth(S, k) == CHOOSE i \in S : Cardinality({j \in S : j < i}) = k - 1

HasUpper(word) == \E i \in 1..Len(word) : word[i] \in Elems(UpperChars)

\* C9: extractKeywords returns exactly the first 5 (or all, if fewer)
\* whitespace-separated tokens of the lower-cased query that are longer than 2
\* and not among the 17 stop words, in their order and with repetitions; never
\* more than 5 tokens; the empty query yields the empty list.
C9_ExtractFirstFive ==
    kwResult.done =>
        LET lq   == ToLowerCase(kwQuery)
            good == GoodStarts(lq)
            res  == kwResult.value
        IN  /\ Cardinality(stopWords) = 17
            /\ Len(res) = Min(5, Cardinality(good))
            /\ Len(res) <= 5
            /\ \A k \in 1..Len(res) :
                  /\ res[k] = TokenAt(lq, Kth(good, k))
                  /\ ~HasUpper(res[k])
            /\ (kwQuery = <<>> => res = <<>>)

\* C9 witness: a query with six qualifying tokens, stop words among them and a
\* repeated token, has been cut to its first five
C9_Witness ==
    /\ kwResult.done
    /\ Cardinality(GoodStarts(ToLowerCase(kwQuery))) > 5
    /\ Cardinality(TokenStarts(kwQuery)) > Cardinality(GoodStarts(ToLowerCase(kwQuery)))
    /\ Len(kwResult.value) = 5
    /\ kwResult.value[1] = kwResult.value[2]
    /\ HasUpper(kwQuery)

W_deploy == <<"d","e","p","l","o","y">>

W_with == <<"w","i","t","h">>

\* C10 as stated: "How do I deploy with Docker" yields ["docker","deploy","with"]
C10_AsStated ==
    (kwResult.done /\ kwQuery = Q_DeployDocker)
        => kwResult.value = <<W_docker, W_deploy, W_with>>

\* C10 amended: "How do I deploy with Docker" yields ["deploy","docker"]: the
\* tokens keep the order of the query, and "with" is a stop word
C10_DeployDocker ==
    (kwResult.done /\ kwQuery = Q_DeployDocker)
        => kwResult.value = <<W_deploy, W_docker>>

\* C10 witness: the query has been extracted
C10_Witness == kwResult.done /\ kwQuery = Q_DeployDocker

-----------------------------------------------------------------------------
(* The summary generator on its own: SpecSummary applies generateSummary   *)
(* to every sequence of SummaryInputs and every query of SummaryQueries    *)

\* an article whose content is one character longer than the preview
LongArticle ==
    [Article(2) EXCEPT !.content =
        [i \in 1..(PreviewLength + 1) |-> IF i > PreviewLength THEN "z" ELSE "x"]]

RECURSIVE ArticleSeqs(_)
\* the sequences of n articles, of two categories and of short and long content
ArticleSeqs(n) ==
    IF n = 0 THEN {<<>>}
    ELSE {Append(s, a) : s \in ArticleSeqs(n - 1),
                         a \in {Article(1), Article(2), LongArticle}}

SummaryInputs == UNION {ArticleSeqs(n) : n \in 0..MaxSummaryArticles}

SummaryWords ==
    { W_how, <<"W","h","a","t">>, W_error, W_issue, W_docker, <<"S","h","o","w">> }

RECURSIVE Phrases(_)
\* the queries of n words of SummaryWords, separated by one space
Phrases(n) ==
    IF n = 0 THEN {<<>>}
    ELSE IF n = 1 THEN SummaryWords
    ELSE {s \o <<" ">> \o w : s \in Phrases(n - 1), w \in SummaryWords}

\* "how do I fix this error"
Q_FixError == <<"h","o","w"," ","d","o"," ","I"," ","f","i","x"," ",
                "t","h","i","s"," ","e","r","r","o","r">>

SummaryQueries == UNION {Phrases(n) : n \in 0..MaxQueryWords} \cup {Q_FixError}

InitSummary ==
    /\ chatIdle
    /\ kwIdle
    /\ adminIdle
    /\ sumArticles \in SummaryInputs
    /\ sumQuery \in SummaryQueries
    /\ sumResult = [done |-> FALSE, value |-> <<>>]

ApplyGenerateSummary ==
    /\ ~sumResult.done
    /\ sumResult' = [done |-> TRUE, value |-> generateSummary(sumArticles, sumQuery)]
    /\ UNCHANGED <<sumArticles, sumQuery, chatVars, kwVars, adminVars>>

NextSummary == ApplyGenerateSummary

SpecSummary == InitSummary /\ [][NextSummary]_vars

\* whether word occurs in query, letter case ignored
ContainsCI(query, word) ==
    \E i \in 0..(Len(query) - Len(word)) :
        \A j \in 1..Len(word) : ToLowerChar(query[i + j]) = ToLowerChar(word[j])

\* C11: generateSummary applied to the empty article sequence returns the
\* fixed no-results message whatever the query text is, and it returns that
\* message for no other article sequence.
C11_NoResultsIffEmpty ==
    sumResult.done =>
        /\ (Len(sumArticles) = 0 => sumResult.value = NoResultsText)
        /\ (sumResult.value = NoResultsText => Len(sumArticles) = 0)
        /\ (Len(sumArticles) = 0 => \A i \in 1..Len(sumQuery) :
                                        sumQuery[i] \notin Elems(sumResult.value))

\* C11 witness: the empty sequence was summarized for a query of two words
C11_Witness ==
    /\ sumResult.done
    /\ sumArticles = <<>>
    /\ ContainsCI(sumQuery, W_how)
    /\ Len(sumQuery) > Len(W_how)
    /\ sumResult.value = NoResultsText

\* C12: for n >= 1 articles the summary starts with the header: the opening,
\* the query text verbatim, the number n of all matched articles (not the
\* number of articles shown, at most 3), "relevant article" and, exactly
\* when n > 1, the plural "s".
C12_HeaderCountsAllMatches ==
    (sumResult.done /\ Len(sumArticles) >= 1) =>
        LET n == Len(sumArticles)
            k == Len(sumQuery)
            r == sumResult.value
        IN  /\ r[1] = "Based on your query about \""
            /\ SubSeq(r, 2, k + 1) = sumQuery
            /\ r[k + 2] = "\", I found "
            /\ n < 10 => r[k + 3] = Digits[n + 1]
            /\ r[k + 4] = " relevant article"
            /\ (n = 1 => r[k + 5] = ":\n\n")
            /\ (n > 1 => r[k + 5] = "s" /\ r[k + 6] = ":\n\n")

\* C12 witness: four articles, more than are shown, were summarized for a
\* query with upper-case letters
C12_Witness ==
    /\ sumResult.done
    /\ Len(sumArticles) > SummaryArticles
    /\ HasUpper(sumQuery)
    /\ sumResult.value[Len(sumQuery) + 3] = "4"
    /\ sumResult.value[Len(sumQuery) + 5] = "s"

\* the position of the chunk that opens the closing sentence
SummaryMark(r) == CHOOSE i \in 1..Len(r) : r[i] = "\n\n**Summary**: "

Procedural == "Here are the step-by-step instructions from our "

Definitional == "These articles explain the concepts and definitions related to "

Troubleshooting ==
    "These articles contain troubleshooting information and solutions for common issues in "

Generic == "The documentation covers various aspects of "

\* C13: the closing sentence is chosen by case-insensitive substring tests on
\* the raw query, the first match winning: "how" gives the procedural
\* framing, else "what" the definitional one, else "error" or "issue" the
\* troubleshooting one, else the generic one; so a query with both "how" and
\* "error" gets the procedural framing, and every query gets exactly one of
\* the four.
C13_FramingByPriority ==
    (sumResult.done /\ Len(sumArticles) >= 1) =>
        LET r == sumResult.value
            framing == r[SummaryMark(r) + 1]
        IN  /\ Cardinality({i \in 1..Len(r) : r[i] = "\n\n**Summary**: "}) = 1
            /\ framing =
                  IF ContainsCI(sumQuery, W_how) THEN Procedural
                  ELSE IF ContainsCI(sumQuery, W_what) THEN Definitional
                  ELSE IF ContainsCI(sumQuery, W_error) \/ ContainsCI(sumQuery, W_issue)
                       THEN Troubleshooting
                  ELSE Generic
            /\ Cardinality({i \in 1..Len(r) :
                   r[i] \in {Procedural, Definitional, Troubleshooting, Generic}}) = 1

\* C13 witness: "how do I fix this error" got the procedural framing
C13_Witness ==
    /\ sumResult.done
    /\ Len(sumArticles) >= 1
    /\ sumQuery = Q_FixError
    /\ sumResult.value[SummaryMark(sumResult.value) + 1] = Procedural

\* C21: the category named in the closing sentence is, in each of the four
\* framings and for every non-empty article sequence, the category of the
\* first article of the sequence, whichever category most articles have.
C21_CategoryOfFirstArticle ==
    (sumResult.done /\ Len(sumArticles) >= 1) =>
        LET r == sumResult.value
            m == SummaryMark(r)
        IN  /\ r[m + 1] \in {Procedural, Definitional, Troubleshooting, Generic}
            /\ <<r[m + 2]>> = sumArticles[1].category
            /\ Len(r) = m + 3
            /\ \A i \in {m + 1, m + 3}, k \in 1..Len(sumArticles) :
                   <<r[i]>> # sumArticles[k].category

\* C21 witness: a summary of three articles of which only the first is of
\* category Security; the closing sentence names Security
C21_Witness ==
    /\ sumResult.done
    /\ Len(sumArticles) = 3
    /\ sumArticles[1].category = <<"Security">>
    /\ sumArticles[2].category = <<"DevOps">>
    /\ sumArticles[3].category = <<"DevOps">>
    /\ sumResult.value[SummaryMark(sumResult.value) + 2] = "Security"

\* the number of chunks an entry takes: the title, the shown part of the
\* content and the five pieces around them
EntryLength(article) ==
    Len(article.title) + 5
    + (IF Len(article.content) > 200 THEN 200 ELSE Len(article.content))

RECURSIVE EntryStart(_, _, _)
\* the position of the k-th entry when the first one starts at position first
EntryStart(first, articles, k) ==
    IF k = 1 THEN first
    ELSE EntryStart(first, articles, k - 1) + EntryLength(articles[k - 1]) + 1

\* whether r holds, from position p on, the entry of the article
HoldsEntry(r, p, article) ==
    LET t == Len(article.title)
        shown == IF Len(article.content) > 200 THEN 200 ELSE Len(article.content)
    IN  /\ r[p] = "**"
        /\ SubSeq(r, p + 1, p + t) = article.title
        /\ r[p + t + 1] = "** ("
        /\ <<r[p + t + 2]>> = article.category
        /\ r[p + t + 3] = "): "
        /\ \A j \in 1..shown : r[p + t + 3 + j] = article.content[j]
        /\ r[p + t + 4 + shown] = "..."

\* C22: for n >= 1 articles the summary holds exactly min(3, n) entries, for
\* the first min(3, n) articles in the order given; an entry is the title,
\* the category and the first 200 characters of the content (all of it when
\* shorter) followed by "...", and two entries are separated by a blank line.
C22_EntriesOfFirstThree ==
    (sumResult.done /\ Len(sumArticles) >= 1) =>
        LET r == sumResult.value
            shown == IF Len(sumArticles) < 3 THEN Len(sumArticles) ELSE 3
            first == (CHOOSE i \in 1..Len(r) : r[i] = ":\n\n") + 1
            start(k) == EntryStart(first, sumArticles, k)
        IN  /\ Cardinality({i \in 1..Len(r) : r[i] = "**"}) = shown
            /\ Cardinality({i \in 1..Len(r) : r[i] = "..."}) = shown
            /\ Cardinality({i \in 1..Len(r) : r[i] = "\n\n"}) = shown - 1
            /\ \A k \in 1..shown :
                   /\ HoldsEntry(r, start(k), sumArticles[k])
                   /\ k < shown =>
                          r[start(k) + EntryLength(sumArticles[k])] = "\n\n"
            /\ start(shown) + EntryLength(sumArticles[shown]) = SummaryMark(r)

\* C22 witness: four articles were summarized, the second with a content of
\* 201 characters; three entries are shown and the 201st character is cut
C22_Witness ==
    /\ sumResult.done
    /\ Len(sumArticles) = 4
    /\ Len(sumArticles[1].content) < 200
    /\ Len(sumArticles[2].content) = 201
    /\ Cardinality({i \in 1..Len(sumResult.value) : sumResult.value[i] = "..."}) = 3
    /\ "z" \notin Elems(sumResult.value)

-----------------------------------------------------------------------------
(* Properties of the chat session *)

\* the outstanding cycles of the mounted session
OwnCalls == {c \in calls : Mounted(c.sess)}

\* a step that is one invocation of handleSendMessage
SubmitStep == submits' = submits + 1

\* a step in which searchArticles is called
DispatchStep == \E c \in calls' \ calls : c.search.pc = "stage1"

\* a step in which the cycle c of the mounted session settles
SettleStep(c) == c \in calls /\ c \notin calls' /\ Mounted(c.sess)
                 /\ Cardinality(calls') < Cardinality(calls)

Last(log) == log[Len(log)]

\* C1: in every session at most one retrieval-and-summarize cycle is
\* outstanding at any time; a submit that arrives while a cycle of the session
\* is outstanding dispatches no searchArticles call, and a call is dispatched
\* only by the submit that is accepted, never later on behalf of another one.
C1_OneCyclePerSession ==
    /\ [](\A s \in 1..session : Cardinality({c \in calls : c.sess = s}) <= 1)
    /\ [][(SubmitStep /\ OwnCalls # {}) => ~DispatchStep]_vars
    /\ [][DispatchStep => (SubmitStep /\ Cardinality(calls') = Cardinality(calls) + 1)]_vars

\* C1 witness: a submit was rejected while the cycle of an earlier one is
\* outstanding
C1_Witness ==
    /\ hist.ev = "reject"
    /\ submits = 2
    /\ Cardinality(OwnCalls) = 1

\* C2: handleSendMessage invoked with a blank input, or while a cycle of the
\* session is in flight, changes neither the turn log nor the in-flight flag
\* nor the input text and sends nothing to the store; while a cycle is in
\* flight the log ends with the user turn of that cycle.
C2_RejectedSubmitIsNoOp ==
    /\ [][(SubmitStep /\ (IsBlank(inputValue) \/ OwnCalls # {}))
            => UNCHANGED <<messages, isLoading, inputValue, calls>>]_vars
    /\ [](\A c \in OwnCalls :
            /\ ~Last(messages).isBot
            /\ Last(messages).content = c.search.query)

\* C2 witness: a whitespace-only input was submitted and rejected
C2_Witness ==
    /\ hist.ev = "reject"
    /\ inputValue = <<" ">>
    /\ ~isLoading
    /\ Len(messages) = 1

\* C3: accepting a submit sets the in-flight flag in the step that dispatches
\* the call; the settling of the cycle clears it whether searchArticles
\* returned or threw; and, every awaited store call being answered, a session
\* in flight is eventually not in flight, where a non-blank input is accepted.
C3_FlagSetAndCleared ==
    /\ [][DispatchStep => (isLoading' /\ ~isLoading)]_vars
    /\ [][(\E c \in calls : SettleStep(c)) => ~isLoading']_vars
    /\ (isLoading ~> ~isLoading)
    /\ [](~isLoading => \A input \in Inputs :
              ~IsBlank(input) => ~SubmitRejected(input, isLoading))

\* C3 witness: a cycle whose searchArticles threw has settled and the session
\* is not in flight
C3_Witness ==
    /\ hist.ev = "apology"
    /\ hist.live
    /\ Mounted(1)
    /\ Len(messages) = 3
    /\ ~isLoading

\* C4: when searchArticles throws, the settling of the cycle appends exactly
\* one turn to the log: an assistant turn with the fixed apology text and no
\* attached articles, in which no detail of the error occurs; the handler
\* ends normally, with the in-flight flag cleared.
C4_FailureAppendsApology ==
    [][\A c \in calls :
          (SettleStep(c) /\ hist'.call.pc = "thrown") =>
              /\ Len(messages') = Len(messages) + 1
              /\ SubSeq(messages', 1, Len(messages)) = messages
              /\ Last(messages').isBot
              /\ Last(messages').content = ErrorText
              /\ ~Last(messages').hasArticles
              /\ Last(messages').articles = <<>>
              /\ \A e \in ErrorDetails : e \notin Elems(Last(messages').content)
              /\ ~isLoading']_vars

\* C4 witness: the full-text query of a cycle threw and the apology is the
\* last turn
C4_Witness ==
    /\ hist.ev = "apology"
    /\ hist.live
    /\ hist.call.r2.outcome = "throw"
    /\ Mounted(1)
    /\ Last(messages).content = ErrorText

\* C5 as stated: when the store answers the full-text query with an error,
\* the session appends the apology turn.
C5_Stage2ErrorIsApology ==
    [][\A c \in calls :
          (SettleStep(c) /\ hist'.call.r2.outcome = "error") =>
              Last(messages').content = ErrorText]_vars

IsGreeting(turn) ==
    /\ turn.id = GreetingId
    /\ turn.content = GreetingText
    /\ turn.isBot
    /\ turn.articles = <<>>

\* C14: the turn log of a session is append-only: it starts as exactly the
\* assistant greeting, every step of the session keeps the turns there are as
\* an unchanged prefix of the new log, and the greeting stays the first turn
\* in every state of the session.
C14_LogIsAppendOnly ==
    /\ (Len(messages) = 1 /\ IsGreeting(messages[1]))
    /\ [][session' # session => (Len(messages') = 1 /\ IsGreeting(messages'[1]))]_vars
    /\ [][(activeView = "chat" /\ activeView' = "chat") =>
            /\ session' = session
            /\ Len(messages') >= Len(messages)
            /\ SubSeq(messages', 1, Len(messages)) = messages]_vars
    /\ [](activeView = "chat" => (Len(messages) >= 1 /\ IsGreeting(messages[1])))

\* C14 witness: a cycle has settled in the second session, whose log is the
\* greeting, the user turn and the summary
C14_Witness ==
    /\ session = 2
    /\ activeView = "chat"
    /\ Len(messages) = 3
    /\ IsGreeting(messages[1])
    /\ ~messages[2].isBot
    /\ messages[3].isBot
    /\ hist.live

\* C15: no turn of the log carries more than 3 articles; the summary turn of
\* a cycle carries the first min(3, n) of the n articles searchArticles
\* returned for it, in their order; the greeting, the user turns and the
\* apology turns carry none.
C15_AtMostThreeAttached ==
    /\ [](\A i \in 1..Len(messages) :
            /\ Len(messages[i].articles) <= 3
            /\ (i = 1 \/ ~messages[i].isBot \/ messages[i].content = ErrorText)
                  => messages[i].articles = <<>>)
    /\ [][\A c \in calls :
            (SettleStep(c) /\ hist'.call.pc = "returned") =>
                LET found == hist'.call.result
                    n     == Len(found)
                IN  /\ Len(Last(messages').articles) = Min(3, n)
                    /\ \A i \in 1..Min(3, n) : Last(messages').articles[i] = found[i]]_vars

\* C15 witness: searchArticles returned four articles and the summary turn
\* carries the first three
C15_Witness ==
    /\ hist.ev = "summary"
    /\ hist.live
    /\ Len(hist.call.result) = 4
    /\ Last(messages).isBot
    /\ Last(messages).articles = SubSeq(hist.call.result, 1, 3)

\* the cycles of the session that have completed: each has left one
\* assistant turn after the greeting
CompletedCycles == Cardinality({i \in 2..Len(messages) : messages[i].isBot})

\* a step in which a submit is accepted
AcceptStep == SubmitStep /\ ~IsBlank(inputValue) /\ ~isLoading

\* C23: in every state of a chat session the log is the greeting followed by
\* strictly alternating user and assistant turns; the session is in flight
\* exactly when the last turn is a user turn; an accepted submit appends
\* exactly one user turn in its own step and the completion of its cycle
\* exactly one assistant turn, the summary or the apology, and no other step
\* of the session appends a turn; the log has 1 + 2 * (completed cycles) +
\* (1 if in flight, else 0) turns.
C23_AlternatingTurns ==
    /\ [](activeView = "chat" =>
            /\ IsGreeting(messages[1])
            /\ \A i \in 2..Len(messages) : messages[i].isBot = (i % 2 = 1)
            /\ isLoading = ~Last(messages).isBot
            /\ Len(messages) =
                  1 + 2 * CompletedCycles + (IF isLoading THEN 1 ELSE 0))
    /\ [][AcceptStep =>
            /\ Len(messages') = Len(messages) + 1
            /\ SubSeq(messages', 1, Len(messages)) = messages
            /\ ~Last(messages').isBot
            /\ Last(messages').content = inputValue]_vars
    /\ [][\A c \in calls : SettleStep(c) =>
            /\ Len(messages') = Len(messages) + 1
            /\ SubSeq(messages', 1, Len(messages)) = messages
            /\ Last(messages').isBot
            /\ \/ Last(messages').content = ErrorText
               \/ Last(messages').content =
                     generateSummary(hist'.call.result, hist'.call.query)]_vars
    /\ [][(activeView = "chat" /\ activeView' = "chat" /\ messages' # messages) =>
            (AcceptStep \/ \E c \in calls : SettleStep(c))]_vars

\* C23 witness: the first cycle of the session ended with the apology and the
\* second one is in flight: the log is the greeting, a user turn, an
\* assistant turn and a user turn
C23_Witness ==
    /\ activeView = "chat"
    /\ isLoading
    /\ Len(messages) = 4
    /\ CompletedCycles = 1
    /\ messages[3].content = ErrorText
    /\ ~messages[4].isBot

\* C24 as stated: the identifiers of the turns of a log are pairwise
\* distinct in every state.
C24_TurnIdsDistinct ==
    \A i, j \in 1..Len(messages) : i # j => messages[i].id # messages[j].id

\* C25: the step that starts a new session leaves it with a log that is
\* exactly the greeting and with the in-flight flag false; a step of a cycle
\* that was started by a session torn down since changes neither the log nor
\* the in-flight flag of the session that is mounted, also when that session
\* has a cycle of its own outstanding; the cycles of the old session stay
\* outstanding across the view changes.
C25_NewSessionIsolated ==
    /\ [][session' # session =>
            /\ session' = session + 1
            /\ activeView = "admin" /\ activeView' = "chat"
            /\ Len(messages') = 1
            /\ IsGreeting(messages'[1])
            /\ ~isLoading'
            /\ calls' = calls]_vars
    /\ [][\A c \in calls :
            (c \notin calls' /\ (c.sess # session \/ activeView # "chat")) =>
                UNCHANGED <<messages, isLoading, inputValue>>]_vars

\* C25 witness: the second session has dispatched a cycle of its own, and
\* the cycle of the first session has settled since; the log is the greeting
\* and the user turn of the second session, which is still in flight
C25_Witness ==
    /\ session = 2
    /\ activeView = "chat"
    /\ hist.ev \in {"summary", "apology"}
    /\ ~hist.live
    /\ \E c \in calls : c.sess = 2
    /\ \A c \in calls : c.sess # 1
    /\ isLoading
    /\ Len(messages) = 2
    /\ IsGreeting(messages[1])

-----------------------------------------------------------------------------
(* Properties of searchArticles *)

\* the searchArticles calls in progress and the one that settled last
Searches == {c.search : c \in calls} \cup {hist.call}

Stage1Hit(search) == search.r1.outcome = "ok" /\ Len(search.r1.data) >= 1

\* C6: a call whose keyword-overlap query returned at least one article has
\* not sent the full-text query.
C6_NoStage2AfterStage1Hit ==
    \A search \in Searches :
        Stage1Hit(search) =>
            /\ search.issued = <<"overlaps">>
            /\ search.r2 = NoResponse
            /\ search.pc = "returned"

\* C6 witness: a call returned the articles of the keyword-overlap query
C6_Witness ==
    /\ Stage1Hit(hist.call)
    /\ hist.call.pc = "returned"
    /\ hist.call.result = hist.call.r1.data
    /\ \E a \in store : TextSearch(a, hist.call.query)

\* C7: searchArticles returns the result of the keyword-overlap query when
\* that is not empty, otherwise the rows the full-text query on the raw query
\* text returned, which match it by title, otherwise the empty sequence.
C7_ReturnsFirstNonEmptyStage ==
    hist.call.pc = "returned" =>
        LET search == hist.call
        IN  /\ search.result =
                  IF Stage1Hit(search) THEN search.r1.data
                  ELSE IF search.r2.outcome = "ok" THEN search.r2.data
                  ELSE <<>>
            /\ ~Stage1Hit(search) =>
                  /\ search.issued = <<"overlaps", "textSearch">>
                  /\ \A a \in Elems(search.result) :
                        a \in store /\ TextSearch(a, search.query)
            /\ (/\ search.r1.outcome = "ok"
                /\ search.r2.outcome = "ok"
                /\ ~\E a \in store : Overlaps(a, extractKeywords(search.query))
                /\ \E a \in store : TextSearch(a, search.query))
               => search.result # <<>>

\* C7 witness: no article of the store shares a keyword with the query, and
\* the call returned the article whose title matches it
C7_Witness ==
    /\ hist.call.pc = "returned"
    /\ hist.call.query = T_Security
    /\ hist.call.r1.outcome = "ok"
    /\ hist.call.r1.data = <<>>
    /\ hist.call.result = <<Article(1)>>
    /\ Cardinality(store) > 1

Descending(rows) ==
    \A i, j \in 1..Len(rows) : i < j => rows[i].created_at >= rows[j].created_at

\* C8: searchArticles returns at most 5 articles, ordered by created_at
\* descending, whichever stage produced them.
C8_AtMostFiveNewestFirst ==
    hist.call.pc = "returned" =>
        /\ Len(hist.call.result) <= 5
        /\ Descending(hist.call.result)

\* C8 witness: six articles match the full-text query, two of them created at
\* the same time, and five were returned
C8_Witness ==
    /\ hist.call.pc = "returned"
    /\ hist.call.r2.outcome = "ok"
    /\ Cardinality({a \in store : TextSearch(a, hist.call.query)}) > 5
    /\ Len(hist.call.result) = 5
    /\ hist.call.result[4].created_at > hist.call.result[5].created_at
    /\ \E a, b \in store : a # b /\ a.created_at = b.created_at
                           /\ TextSearch(a, hist.call.query)
                           /\ TextSearch(b, hist.call.query)

\* C19 as stated: the full-text query is sent only when the keyword-overlap
\* query returned zero rows without an error; a store error in stage 1 does
\* not lead to a stage-2 query.
C19_Stage2OnlyAfterCleanEmpty ==
    \A search \in Searches :
        "textSearch" \in Elems(search.issued) =>
            /\ search.r1.outcome = "ok"
            /\ Len(search.r1.data) = 0

\* C20 as stated: when extractKeywords yields the empty list, the
\* keyword-overlap query is not sent and the store receives exactly one
\* query, the full-text one.
C20_AsStated ==
    \A search \in Searches :
        (search.pc # "none" /\ search.keywords = <<>>) =>
            /\ "overlaps" \notin Elems(search.issued)
            /\ (search.pc = "returned" => search.issued = <<"textSearch">>)

\* C20 amended: when extractKeywords yields the empty list, the
\* keyword-overlap query is still sent first, with the empty list, which
\* matches no article; the full-text query follows, and a call that returns
\* has sent exactly these two queries.
C20_EmptyKeywordsStillQueried ==
    \A search \in Searches :
        (search.pc # "none" /\ search.keywords = <<>>) =>
            /\ search.issued[1] = "overlaps"
            /\ (search.r1.outcome = "ok" => search.r1.data = <<>>)
            /\ (search.pc = "returned" =>
                    search.issued = <<"overlaps", "textSearch">>)

\* C20 witness: "how to", of which no word is a keyword, was searched in a
\* store that is not empty, and the call returned after two queries
C20_Witness ==
    /\ hist.call.pc = "returned"
    /\ hist.call.query = Q_HowTo
    /\ hist.call.keywords = <<>>
    /\ hist.call.r1.outcome = "ok"
    /\ Len(hist.call.issued) = 2
    /\ store # {}

-----------------------------------------------------------------------------
(* AdminPanel: the article list, the editor and the store calls of          *)
(* fetchArticles, handleSave and handleDelete.  SpecAdmin starts when the   *)
(* panel has been mounted and its effect has called fetchArticles.  A store *)
(* call takes two steps: the store serves it, and the handler that awaits   *)
(* it goes on with the answer.                                              *)

\* editingArticle: null, or the fields of the editor.  The id 0 stands for no
\* id: the object startEditing() makes for a new article has none
NoArticle == [null |-> TRUE]

NewArticle ==
    [ null |-> FALSE, id |-> 0, title |-> <<>>, content |-> <<>>,
      keywords |-> <<>>, category |-> <<"General">>, author |-> <<"Admin">>,
      created_at |-> 0, updated_at |-> 0 ]

\* startEditing(article): the editor holds the article of the list
Editing(article) ==
    [ null |-> FALSE, id |-> article.id, title |-> article.title,
      content |-> article.content, keywords |-> article.keywords,
      category |-> article.category, author |-> article.author,
      created_at |-> article.created_at, updated_at |-> article.updated_at ]

\* String.prototype.trim
Trim(s) ==
    IF IsBlank(s) THEN <<>>
    ELSE LET first == CHOOSE i \in 1..Len(s) :
                          s[i] \notin Whitespace /\ \A j \in 1..(i - 1) : s[j] \in Whitespace
             last  == CHOOSE i \in 1..Len(s) :
                          s[i] \notin Whitespace /\ \A j \in (i + 1)..Len(s) : s[j] \in Whitespace
         IN  SubSeq(s, first, last)

RECURSIVE SplitCommaFrom(_, _, _, _)
SplitCommaFrom(s, i, cur, acc) ==
    IF i > Len(s) THEN Append(acc, cur)
    ELSE IF s[i] = ","
         THEN SplitCommaFrom(s, i + 1, <<>>, Append(acc, cur))
         ELSE SplitCommaFrom(s, i + 1, Append(cur, s[i]), acc)

\* String.prototype.split(',')
SplitComma(s) == SplitCommaFrom(s, 1, <<>>, <<>>)

NonEmpty(k) == Len(k) > 0

\* value.split(',').map(k => k.trim()).filter(k => k.length > 0)
ParseKeywords(value) ==
    SelectSeq([i \in 1..Len(SplitComma(value)) |-> Trim(SplitComma(value)[i])],
              NonEmpty)

\* x || fallback, for strings: the empty string is falsy
OrDefault(x, fallback) == IF x = <<>> THEN fallback ELSE x

\* the object handleSave sends to the store
articleData(editing) ==
    [ title    |-> editing.title,
      content  |-> editing.content,
      keywords |-> editing.keywords,
      category |-> OrDefault(editing.category, <<"General">>),
      author   |-> OrDefault(editing.author, <<"Admin">>) ]

NoData == articleData(NewArticle)

\* faulty variant: only the title is required
SaveRejected_TitleOnly(editing) == editing.null \/ editing.title = <<>>

\* if (!editingArticle?.title || !editingArticle?.content) return
SaveRejected(editing) ==
    editing.null \/ editing.title = <<>> \/ editing.content = <<>>

\* .insert([articleData]): id and created_at are given by the store
InsertRow(st, data, id) ==
    st \cup {[ id |-> id, title |-> data.title, content |-> data.content,
               keywords |-> data.keywords, category |-> data.category,
               author |-> data.author, created_at |-> id, updated_at |-> id ]}

\* .update(articleData).eq('id', id)
UpdateRows(st, data, id) ==
    {IF a.id = id
     THEN [a EXCEPT !.title = data.title, !.content = data.content,
                    !.keywords = data.keywords, !.category = data.category,
                    !.author = data.author]
     ELSE a : a \in st}

\* .delete().eq('id', id)
DeleteRows(st, id) == {a \in st : a.id # id}

NoAnswer == [outcome |-> "none", rows |-> <<>>]

\* the store call number n of the panel, as it is sent
AdminCall(n, kind, id, data) ==
    [n |-> n, kind |-> kind, id |-> id, data |-> data, phase |-> "sent",
     resp |-> NoAnswer]

\* the store after it has carried out call c
Served(st, c, id) ==
    IF c.kind = "insert" THEN InsertRow(st, c.data, id)
    ELSE IF c.kind = "update" THEN UpdateRows(st, c.data, c.id)
    ELSE IF c.kind = "delete" THEN DeleteRows(st, c.id)
    ELSE st

\* .select('*').order('created_at', { ascending: false })
ListAnswers(st) == {[outcome |-> "ok", rows |-> rows] : rows \in DescOrders(st)}

\* the answers without rows: { error: null } of a write, { error } or a
\* rejection
Answer(outcome) == [outcome |-> outcome, rows |-> <<>>]

\* faulty variant: the error of the answer is not looked at
Succeeded_IgnoresError(resp) == TRUE

\* the await did not reject and `if (error) throw error` did not throw
Succeeded(resp) == resp.outcome = "ok"

\* fetchArticles up to its await, as call number n
FetchCall(n) == AdminCall(n, "list", 0, NoData)

\* a number no outstanding call has
FreshCall == CHOOSE n \in 1..(Cardinality(adminCalls) + 1) :
                 \A c \in adminCalls : c.n # n

\* what is typed into the editor, which is empty when it opens for a new
\* article
Titles == { T_Security }

Contents == { <<"k","e","y","s">> }

KeywordTexts == { <<" ","D","o","c","k","e","r"," ",",","a","p","i",",">> }

\* the stores the panel is opened on
AdminStores == { {Article(1)} }

InitAdmin ==
    /\ store \in AdminStores
    /\ nextId = 2
    /\ activeView = "admin"
    /\ session = 0
    /\ messages = <<>>
    /\ inputValue = <<>>
    /\ isLoading = FALSE
    /\ calls = {}
    /\ clock = 0
    /\ submits = 0
    /\ hist = [ev |-> "init", call |-> NoCall, live |-> FALSE]
    /\ kwIdle
    /\ summaryIdle
    /\ adminArticles = <<>>
    /\ isEditing = FALSE
    /\ editingArticle = NoArticle
    /\ adminLoading = TRUE
    /\ adminCalls = {FetchCall(1)}
    /\ adminHist = [ev |-> "step", events |-> 0, fetched |-> 0]

\* the store carries out call c and answers it
StoreServes(c) ==
    /\ c \in adminCalls
    /\ c.phase = "sent"
    /\ \E resp \in (IF c.kind = "list" THEN ListAnswers(store) ELSE {Answer("ok")}) :
          adminCalls' = (adminCalls \ {c})
                           \cup {[c EXCEPT !.phase = "answered", !.resp = resp]}
    /\ store' = Served(store, c, nextId)
    /\ nextId' = IF c.kind = "insert" THEN nextId + 1 ELSE nextId
    /\ adminHist' = [adminHist EXCEPT !.ev = "step"]
    /\ UNCHANGED <<activeView, session, messages, inputValue, isLoading, calls,
                   clock, submits, hist, kwVars, sumVars, adminArticles,
                   isEditing, editingArticle, adminLoading>>

\* What the await of call c gives: the answer of the store that carried it
\* out, or, for a call the store did not carry out, { error } or a rejection;
\* such a call leaves no trace in the store.
Awaited(c) ==
    IF c.phase = "answered" THEN {c.resp} ELSE {Answer("error"), Answer("throw")}

\* faulty variant: the rows of a fetch are dropped while another fetch is
\* outstanding
FetchSettles_SkipsWhileFetching(c) ==
    /\ c \in adminCalls
    /\ c.kind = "list"
    /\ \E resp \in Awaited(c) :
          /\ adminArticles' =
                IF Succeeded(resp) /\ ~\E d \in adminCalls \ {c} : d.kind = "list"
                THEN resp.rows ELSE adminArticles
          /\ adminHist' = [adminHist EXCEPT
                              !.ev = IF Succeeded(resp) THEN "listed" ELSE "listFailed",
                              !.fetched = IF Succeeded(resp) THEN @ + 1 ELSE @]
    /\ adminLoading' = FALSE
    /\ adminCalls' = adminCalls \ {c}
    /\ UNCHANGED <<chatVars, kwVars, sumVars, isEditing, editingArticle, nextId>>

\* fetchArticles from its await to its end
FetchSettles(c) ==
    /\ c \in adminCalls
    /\ c.kind = "list"
    /\ \E resp \in Awaited(c) :
          /\ adminArticles' = IF Succeeded(resp) THEN resp.rows ELSE adminArticles
          /\ adminHist' = [adminHist EXCEPT
                              !.ev = IF Succeeded(resp) THEN "listed" ELSE "listFailed",
                              !.fetched = IF Succeeded(resp) THEN @ + 1 ELSE @]
    /\ adminLoading' = FALSE
    /\ adminCalls' = adminCalls \ {c}
    /\ UNCHANGED <<chatVars, kwVars, sumVars, isEditing, editingArticle, nextId>>

\* handleSave from its await to its end
SaveSettles(c) ==
    /\ c \in adminCalls
    /\ c.kind \in {"insert", "update"}
    /\ \E resp \in Awaited(c) :
          IF Succeeded(resp)
          THEN /\ isEditing' = FALSE
               /\ editingArticle' = NoArticle
               /\ adminCalls' = (adminCalls \ {c}) \cup {FetchCall(FreshCall)}
               /\ adminHist' = [adminHist EXCEPT !.ev = "step"]
          ELSE /\ adminCalls' = adminCalls \ {c}
               /\ adminHist' = [adminHist EXCEPT !.ev = "saveFailed"]
               /\ UNCHANGED <<isEditing, editingArticle>>
    /\ UNCHANGED <<chatVars, kwVars, sumVars, adminArticles, adminLoading, nextId>>

\* handleDelete from its await to its end
DeleteSettles(c) ==
    /\ c \in adminCalls
    /\ c.kind = "delete"
    /\ \E resp \in Awaited(c) :
          IF Succeeded(resp)
          THEN /\ adminCalls' = (adminCalls \ {c}) \cup {FetchCall(FreshCall)}
               /\ adminHist' = [adminHist EXCEPT !.ev = "step"]
          ELSE /\ adminCalls' = adminCalls \ {c}
               /\ adminHist' = [adminHist EXCEPT !.ev = "deleteFailed"]
    /\ UNCHANGED <<chatVars, kwVars, sumVars, adminArticles, isEditing,
                   editingArticle, adminLoading, nextId>>

\* New Article or the Edit button of a card; the panel shows only the spinner
\* while loading, and the open editor covers the page
startEditing(editing) ==
    /\ ~adminLoading
    /\ ~isEditing
    /\ adminHist.events < MaxAdminEvents
    /\ editingArticle' = editing
    /\ isEditing' = TRUE
    /\ adminHist' = [adminHist EXCEPT !.ev = "step", !.events = @ + 1]
    /\ UNCHANGED <<chatVars, kwVars, sumVars, adminArticles, adminLoading,
                   adminCalls, nextId>>

\* the X and the Cancel button: setIsEditing(false)
closeEditor ==
    /\ isEditing
    /\ adminHist.events < MaxAdminEvents
    /\ isEditing' = FALSE
    /\ adminHist' = [adminHist EXCEPT !.ev = "step", !.events = @ + 1]
    /\ UNCHANGED <<chatVars, kwVars, sumVars, adminArticles, editingArticle,
                   adminLoading, adminCalls, nextId>>

\* an onChange of the editor: setEditingArticle(prev => prev ? {...} : null)
setEditingArticle(next) ==
    /\ isEditing
    /\ ~editingArticle.null
    /\ next # editingArticle
    /\ adminHist.events < MaxAdminEvents
    /\ editingArticle' = next
    /\ adminHist' = [adminHist EXCEPT !.ev = "step", !.events = @ + 1]
    /\ UNCHANGED <<chatVars, kwVars, sumVars, adminArticles, isEditing,
                   adminLoading, adminCalls, nextId>>

setTitle(value) == setEditingArticle([editingArticle EXCEPT !.title = value])

setContent(value) == setEditingArticle([editingArticle EXCEPT !.content = value])

handleKeywordsChange(value) ==
    setEditingArticle([editingArticle EXCEPT !.keywords = ParseKeywords(value)])

\* Save Article: handleSave up to its await
handleSave ==
    /\ isEditing
    /\ adminHist.events < MaxAdminEvents
    /\ IF SaveRejected(editingArticle)
       THEN /\ adminHist' = [adminHist EXCEPT !.ev = "saveRejected", !.events = @ + 1]
            /\ UNCHANGED adminCalls
       ELSE /\ adminCalls' = adminCalls \cup
                  {AdminCall(FreshCall,
                             IF editingArticle.id # 0 THEN "update" ELSE "insert",
                             editingArticle.id, articleData(editingArticle))}
            /\ adminHist' = [adminHist EXCEPT !.ev = "step", !.events = @ + 1]
    /\ UNCHANGED <<chatVars, kwVars, sumVars, adminArticles, isEditing,
                   editingArticle, adminLoading, nextId>>

\* the Delete button of a card: handleDelete up to its await
handleDelete(id, confirmed) ==
    /\ ~adminLoading
    /\ ~isEditing
    /\ adminHist.events < MaxAdminEvents
    /\ \E i \in 1..Len(adminArticles) : adminArticles[i].id = id
    /\ IF ~confirmed
       THEN /\ adminHist' = [adminHist EXCEPT !.ev = "step", !.events = @ + 1]
            /\ UNCHANGED adminCalls
       ELSE /\ adminCalls' = adminCalls \cup
                  {AdminCall(FreshCall, "delete", id, NoData)}
            /\ adminHist' = [adminHist EXCEPT !.ev = "step", !.events = @ + 1]
    /\ UNCHANGED <<chatVars, kwVars, sumVars, adminArticles, isEditing,
                   editingArticle, adminLoading, nextId>>

NextAdmin ==
    \/ \E c \in adminCalls : StoreServes(c)
    \/ \E c \in adminCalls : FetchSettles(c)
    \/ \E c \in adminCalls : SaveSettles(c)
    \/ \E c \in adminCalls : DeleteSettles(c)
    \/ \E editing \in {NewArticle} \cup {Editing(a) : a \in Elems(adminArticles)} :
          startEditing(editing)
    \/ closeEditor
    \/ \E value \in Titles : setTitle(value)
    \/ \E value \in Contents : setContent(value)
    \/ \E value \in KeywordTexts : handleKeywordsChange(value)
    \/ handleSave
    \/ \E id \in 1..nextId, confirmed \in BOOLEAN : handleDelete(id, confirmed)

SpecAdmin == InitAdmin /\ [][NextAdmin]_vars

-----------------------------------------------------------------------------
(* Properties of AdminPanel *)

\* a step in which the handler that awaits call c gets an error: the call is
\* gone without the store having carried it out
FailedSettle(c) ==
    /\ c \in adminCalls
    /\ c.phase = "sent"
    /\ \A d \in adminCalls' : d.n # c.n

\* a step in which the article list changes to the rows of a list fetch that
\* the store answered
ListedStep ==
    \E c \in adminCalls :
        /\ c.kind = "list"
        /\ c.phase = "answered"
        /\ c \notin adminCalls'
        /\ adminArticles' = c.resp.rows

\* C16 as stated: when a store call of the panel (list, create, update or
\* delete) fails, the article list, the editor's being open, the article in
\* the editor and the loading flag are as they were, and the article list
\* changes only by a list fetch that succeeded.
C16_AsStated ==
    /\ [][\A c \in adminCalls :
            FailedSettle(c) =>
                UNCHANGED <<adminArticles, isEditing, editingArticle, adminLoading>>]_vars
    /\ [][adminArticles' # adminArticles => ListedStep]_vars

\* C16 amended: when a store call of the panel fails, the handling of the
\* error changes neither the article list nor the editor's being open nor the
\* article in the editor, and sends no further call; the loading flag is as
\* it was too, except that a list fetch that fails clears it; the article
\* list changes only by a list fetch that succeeded.
C16_ErrorKeepsListAndEditor ==
    /\ [][\A c \in adminCalls :
            FailedSettle(c) =>
                /\ UNCHANGED <<adminArticles, isEditing, editingArticle, store>>
                /\ adminCalls' = adminCalls \ {c}
                /\ adminLoading' = IF c.kind = "list" THEN FALSE ELSE adminLoading]_vars
    /\ [][adminArticles' # adminArticles => ListedStep]_vars

\* C16 witness: the update of a listed article failed; the editor is still
\* open on it and the list is the one fetched before
C16_Witness ==
    /\ adminHist.ev = "saveFailed"
    /\ isEditing
    /\ editingArticle.id = 1
    /\ adminArticles = <<Article(1)>>
    /\ adminCalls = {}

\* a step that is one invocation of handleSave
SaveClick ==
    /\ isEditing /\ isEditing'
    /\ editingArticle' = editingArticle
    /\ adminHist'.events = adminHist.events + 1

\* C17: every article of the store has a title and a content that are not
\* empty, whatever creations and updates the panel has made; handleSave
\* invoked with an empty title or an empty content sends no insert and no
\* update and leaves the store as it is.
C17_PersistedTitleAndContent ==
    /\ [](\A a \in store : a.title # <<>> /\ a.content # <<>>)
    /\ [][(SaveClick /\ (editingArticle.title = <<>> \/ editingArticle.content = <<>>))
            => UNCHANGED <<adminCalls, store>>]_vars

\* C17 witness: Save was invoked for a new article with a title and no
\* content, and nothing was sent
C17_Witness ==
    /\ adminHist.ev = "saveRejected"
    /\ isEditing
    /\ editingArticle.id = 0
    /\ editingArticle.title # <<>>
    /\ editingArticle.content = <<>>
    /\ adminCalls = {}
    /\ store = {Article(1)}

\* C26: the article list is the result of the list fetch that resolved last:
\* whenever a fetch the store answered resolves, the list becomes its rows,
\* whatever other fetches are outstanding or have resolved and whatever the
\* store holds by then; the list changes in no other step, so with no call
\* outstanding it stays as it is, stale or not, until a save or a delete
\* triggers another fetch.
C26_LastResolvedFetchShown ==
    /\ [][\A c \in adminCalls :
            (c.kind = "list" /\ c.phase = "answered" /\ c \notin adminCalls')
                => adminArticles' = c.resp.rows]_vars
    /\ [][adminArticles' # adminArticles =>
            \E c \in adminCalls : c.kind = "list" /\ c \notin adminCalls']_vars
    /\ [][(\A c \in adminCalls : c.kind # "list") =>
            adminArticles' = adminArticles]_vars

\* C26 witness: the fetch on mount, the fetch after an update and the fetch
\* after the delete of article 1 have all resolved with rows, the one after
\* the update last: with no call outstanding the list shows article 1, which
\* the store no longer holds
C26_Witness ==
    /\ adminHist.ev = "listed"
    /\ adminHist.fetched = 3
    /\ adminHist.events = 3
    /\ adminCalls = {}
    /\ store = {}
    /\ Len(adminArticles) = 1
    /\ adminArticles[1].id = 1

\* C27 as stated: Save invoked on the editor of a new article while an insert
\* is outstanding sends no call.
C27_NoSecondInsert ==
    [][(SaveClick /\ editingArticle.id = 0
           /\ \E c \in adminCalls : c.kind = "insert")
         => adminCalls' = adminCalls]_vars

\* C18 as stated: every keyword of every article persisted through the panel
\* is a lower-case term.
C18_KeywordsLowercase ==
    \A a \in store : \A i \in 1..Len(a.keywords) : ~HasUpper(a.keywords[i])

====
